---- MODULE Spec2Model ----
(***************************************************************************)
(* Batch management routes (routes/batches.py): batch CRUD, enrollment,    *)
(* ranked roster listing and the archive / restore cascade, as a state     *)
(* machine over the persisted rows.  Strings are sequences of one-         *)
(* character strings so that strip(), substring tests, formatting and      *)
(* split() are computed and not assumed.                                   *)
(***************************************************************************)
EXTENDS Integers, Sequences, FiniteSets, TLC

(***************************************************************************)
(* Bounds of the model                                                     *)
(***************************************************************************)
MaxBatches == 2          \* batch ids ever handed out by the database
NumStudents == 3         \* STUDENT-role user rows
MaxPos == 3              \* largest ranking position drawn for the roster listing

(***************************************************************************)
(* Strings                                                                 *)
(***************************************************************************)
\* Python None for a string-valued field, and a key missing from the JSON body.
NoneStr == <<"None">>
AbsentStr == <<"Absent">>
EmptyStr == << >>

IsText(s) == s # NoneStr /\ s # AbsentStr

\* Python truthiness of an optional string: None, a missing key and "" are falsy.
Truthy(s) == IsText(s) /\ s # EmptyStr

IsSpace(c) == c \in {" ", "\t"}

RECURSIVE LStrip(_)
LStrip(s) == IF s # << >> /\ IsSpace(Head(s)) THEN LStrip(Tail(s)) ELSE s

RECURSIVE RStrip(_)
RStrip(s) ==
    IF s # << >> /\ IsSpace(s[Len(s)]) THEN RStrip(SubSeq(s, 1, Len(s) - 1)) ELSE s

\* str.strip()
Strip(s) == RStrip(LStrip(s))

\* sub in s
Contains(s, sub) ==
    \E i \in 1..(Len(s) - Len(sub) + 1) : SubSeq(s, i, i + Len(sub) - 1) = sub

\* index of the first occurrence of sub in s (0 when there is none)
FirstIndex(s, sub) ==
    IF Contains(s, sub)
    THEN CHOOSE i \in 1..(Len(s) - Len(sub) + 1) :
            /\ SubSeq(s, i, i + Len(sub) - 1) = sub
            /\ \A j \in 1..(i - 1) : SubSeq(s, j, j + Len(sub) - 1) # sub
    ELSE 0

Sep == <<" ", "-", " ">>

\* description.split(' - ')[0]
SplitHead(s) == IF Contains(s, Sep) THEN SubSeq(s, 1, FirstIndex(s, Sep) - 1) ELSE s

\* the description written subject first
MakeDescription_subject_first(c, s) == s \o Sep \o c

\* f"{class_name} - {subject}"
MakeDescription(c, s) == c \o Sep \o s

ClassWord == <<"C", "l", "a", "s", "s", " ">>
HSCWord == <<"H", "S", "C", " ">>
YearWord == <<" ", "Y", "e", "a", "r">>

allowed_classes ==
    { ClassWord \o <<d>> : d \in {"1", "2", "3", "4", "5", "6", "7", "8", "9"} }
    \cup { ClassWord \o <<"1", "0">>,
           HSCWord \o <<"1", "s", "t">> \o YearWord,
           HSCWord \o <<"2", "n", "d">> \o YearWord }

allowed_subjects ==
    { <<"M", "a", "t", "h", "e", "m", "a", "t", "i", "c", "s">>,
      <<"H", "i", "g", "h", "e", "r", " ", "M", "a", "t", "h", "e", "m", "a", "t", "i", "c", "s">>,
      <<"P", "h", "y", "s", "i", "c", "s">>,
      <<"C", "h", "e", "m", "i", "s", "t", "r", "y">>,
      <<"B", "i", "o", "l", "o", "g", "y">>,
      <<"E", "n", "g", "l", "i", "s", "h">>,
      <<"B", "a", "n", "g", "l", "a">>,
      <<"I", "C", "T">>,
      <<"G", "e", "n", "e", "r", "a", "l", " ", "S", "c", "i", "e", "n", "c", "e">> }

\* f"Archived with batch: {batch.name}"
ArchivedWith ==
    <<"A", "r", "c", "h", "i", "v", "e", "d", " ", "w", "i", "t", "h", " ",
      "b", "a", "t", "c", "h", ":", " ">>

CascadeReason(name) == ArchivedWith \o name

\* data.get('reason', 'Archived by teacher')
DefaultReason ==
    <<"A", "r", "c", "h", "i", "v", "e", "d", " ", "b", "y", " ",
      "t", "e", "a", "c", "h", "e", "r">>

\* A reason written by the user-management routes, which are outside this file.
OtherReason == <<"L", "e", "f", "t">>

(***************************************************************************)
(* Values                                                                  *)
(***************************************************************************)
NoUser == 0              \* NULL archived_by / a missing student_id
NoDate == 0              \* NULL end_date / end_date missing from the body
NoBatch == 0             \* a response that names no batch
Today == 100             \* date.today(), in days
NullStamp == "NULL"      \* NULL archived_at
Stamp == "utcnow"        \* datetime.utcnow()

STUDENT == "STUDENT"
TEACHER == "TEACHER"

BatchIds == 1..MaxBatches
Students == 1..NumStudents
TeacherId == NumStudents + 1        \* get_current_user(): the teacher making the requests
UnknownId == NumStudents + 2        \* an id no user row has
Users == Students \cup {TeacherId}
LeftId == NumStudents               \* the student archived before any batch request

Role(u) == IF u = TeacherId THEN TEACHER ELSE STUDENT

(***************************************************************************)
(* Request inputs                                                          *)
(***************************************************************************)
NameA == <<"A">>
NameAB == <<"A", "B">>
NameASpace == <<"A", " ">>

NameInputs == {AbsentStr, NameA, NameAB, NameASpace}
ClassInputs ==
    { AbsentStr, EmptyStr, ClassWord \o <<"5">>, <<" ">> \o ClassWord \o <<"5">>,
      ClassWord \o <<"1", "1">> }
SubjectInputs ==
    { AbsentStr, EmptyStr, <<"I", "C", "T">>, <<"B", "a", "n", "g", "l", "a">>,
      <<"A", "r", "t">> }
EndDateInputs == {NoDate, Today, Today + 1}
ReasonInputs == {AbsentStr, NoneStr}
StudentIdInputs == Users \cup {UnknownId, NoUser}

(***************************************************************************)
(* State                                                                   *)
(***************************************************************************)
VARIABLES
    batches,        \* Batch rows: batch id -> record, for the ids that exist
    next_id,        \* the next primary key the database hands out
    students,       \* user_batches rows: batch id -> enrolled user ids, in insertion order
    users,          \* User rows: user id -> record
    cause,          \* history: the batch id whose cascade archived the user (NoBatch: none)
    exams,          \* MonthlyExam rows: exam id -> record
    rankings,       \* MonthlyRanking rows: exam id -> user id -> record
    inflight,       \* archive requests between their check and their commit
    resp            \* the response to the last request

vars == <<batches, next_id, students, users, cause, exams, rankings, inflight, resp>>

\* What the handlers of this file never write.
others == <<exams, rankings, inflight>>

Exists(batch_id) == batch_id \in DOMAIN batches

Range(s) == { s[i] : i \in 1..Len(s) }

NewUser ==
    [ is_active |-> TRUE, is_archived |-> FALSE, archived_at |-> NullStamp,
      archived_by |-> NoUser, archive_reason |-> NoneStr ]

\* A student the user-management routes archived before any batch request.
LeftUser ==
    [ is_active |-> TRUE, is_archived |-> TRUE, archived_at |-> Stamp,
      archived_by |-> TeacherId, archive_reason |-> OtherReason ]

\* op, HTTP status, the batch the request named, the count in the body, and the
\* student ids of the body in order (for archive, restore and delete: the user or
\* association rows the request changed); ranks and class are the keys only
\* get_batch_students and create_batch add to the body.
Response(op, status, batch_id, count, list) ==
    [ op |-> op, status |-> status, batch_id |-> batch_id, count |-> count, list |-> list,
      ranks |-> << >>, class |-> AbsentStr ]

Requests == {1, 2}
Idle == [ pc |-> "idle", batch_id |-> NoBatch, status |-> 0, raced |-> FALSE ]

Init ==
    /\ batches = << >>
    /\ next_id = 1
    /\ students = [ b \in BatchIds |-> << >> ]
    /\ users = [ u \in Users |-> IF u = LeftId THEN LeftUser ELSE NewUser ]
    /\ cause = [ u \in Users |-> NoBatch ]
    /\ exams = << >>
    /\ rankings = << >>
    /\ inflight = [ r \in Requests |-> Idle ]
    /\ resp = Response("none", 0, NoBatch, 0, << >>)

(***************************************************************************)
(* create_batch                                                            *)
(***************************************************************************)
\* Batch.query.filter_by(name=...).first() is not None
NameExists(name) == \E b \in DOMAIN batches : batches[b].name = name

\* Decimal('0.00'), in hundredths
ZeroFee == 0

NewBatch(name, class_name, subject) ==
    [ name |-> name,
      subject |-> subject,
      start_date |-> Today,
      end_date |-> NoDate,
      description |-> MakeDescription(class_name, subject),
      is_active |-> TRUE,
      fee_amount |-> ZeroFee,
      max_students |-> 50,
      is_archived |-> FALSE,
      archived_at |-> NullStamp,
      archived_by |-> NoUser,
      archive_reason |-> NoneStr ]

create_status(name, class, subject) ==
    IF ~Truthy(name) \/ ~Truthy(class) \/ ~Truthy(subject) THEN 400
    ELSE IF Strip(class) \notin allowed_classes THEN 400
    ELSE IF Strip(subject) \notin allowed_subjects THEN 400
    ELSE IF NameExists(Strip(name)) THEN 409
    ELSE 201

CreateBatch(name, class, subject) ==
    LET status == create_status(name, class, subject) IN
    /\ next_id <= MaxBatches
    /\ IF status = 201
       THEN /\ batches' = [ b \in DOMAIN batches \cup {next_id} |->
                               IF b = next_id
                               THEN NewBatch(Strip(name), Strip(class), Strip(subject))
                               ELSE batches[b] ]
            /\ next_id' = next_id + 1
            /\ resp' = [ Response("create", 201, next_id, 0, << >>)
                         EXCEPT !.class = Strip(class) ]
       ELSE /\ UNCHANGED <<batches, next_id>>
            /\ resp' = Response("create", status, NoBatch, 0, << >>)
    /\ UNCHANGED <<students, users, cause, others>>

(***************************************************************************)
(* update_batch                                                            *)
(***************************************************************************)
\* Batch.query.filter(Batch.name == name, Batch.id != batch_id).first() is not None
NameTakenByOther(name, batch_id) ==
    \E b \in DOMAIN batches : b # batch_id /\ batches[b].name = name

\* data.get(key, default)
GetOr(value, default) == IF value = AbsentStr THEN default ELSE value

\* The row after the class / subject block and the field loop, before the date check.
update_fields(batch, name, class, subject) ==
    LET current_class == IF Contains(batch.description, Sep)
                         THEN SplitHead(batch.description) ELSE NoneStr
        new_class == GetOr(class, current_class)
        new_subject == GetOr(subject, batch.subject)
        touched == class # AbsentStr \/ subject # AbsentStr
        b1 == IF touched /\ Truthy(new_subject)
              THEN [batch EXCEPT !.subject = new_subject] ELSE batch
        b2 == IF touched /\ Truthy(new_class) /\ Truthy(new_subject)
              THEN [b1 EXCEPT !.description = MakeDescription(new_class, new_subject)]
              ELSE b1
    IN  IF name # AbsentStr THEN [b2 EXCEPT !.name = name] ELSE b2

update_status(batch_id, name, class, subject, end_date) ==
    IF ~Exists(batch_id) THEN 404
    ELSE LET batch == batches[batch_id]
             current_class == IF Contains(batch.description, Sep)
                              THEN SplitHead(batch.description) ELSE NoneStr
             new_class == GetOr(class, current_class)
             new_subject == GetOr(subject, batch.subject)
             touched == class # AbsentStr \/ subject # AbsentStr
             after == update_fields(batch, name, class, subject)
         IN  IF name = AbsentStr /\ class = AbsentStr /\ subject = AbsentStr
                /\ end_date = NoDate THEN 400
             ELSE IF name # AbsentStr /\ Strip(name) # batch.name
                     /\ NameTakenByOther(Strip(name), batch_id) THEN 409
             ELSE IF touched /\ Truthy(new_class) /\ new_class \notin allowed_classes THEN 400
             ELSE IF touched /\ Truthy(new_subject) /\ new_subject \notin allowed_subjects
                  THEN 400
             ELSE IF after.end_date # NoDate /\ after.end_date <= after.start_date THEN 400
             ELSE 200

UpdateBatch(batch_id, name, class, subject, end_date) ==
    LET status == update_status(batch_id, name, class, subject, end_date) IN
    /\ batches' = IF status = 200
                  THEN [batches EXCEPT
                          ![batch_id] = update_fields(batches[batch_id], name, class, subject)]
                  ELSE batches
    /\ resp' = Response("update", status, batch_id, 0, << >>)
    /\ UNCHANGED <<next_id, students, users, cause, others>>

(***************************************************************************)
(* Enrollment                                                              *)
(***************************************************************************)
\* batch.students: the users the association rows of the batch name
Roster(batch_id) == students[batch_id]

Enrolled(u, batch_id) == u \in Range(Roster(batch_id))

\* User.query.filter_by(id=student_id, role=UserRole.STUDENT, is_active=True).first()
ActiveStudent(student_id) ==
    student_id \in Users /\ Role(student_id) = STUDENT /\ users[student_id].is_active

\* User.query.filter_by(id=student_id, role=UserRole.STUDENT).first()
AnyStudent(student_id) == student_id \in Users /\ Role(student_id) = STUDENT

\* add_student_to_batch without the "already in batch" test of line 393
add_status_nodup(batch_id, student_id) ==
    IF ~Exists(batch_id) THEN 404
    ELSE IF student_id = NoUser THEN 400
    ELSE IF ~ActiveStudent(student_id) THEN 404
    ELSE 200

\* add_student_to_batch without the batch lookup test of line 378
add_status_nobatch(batch_id, student_id) ==
    IF student_id = NoUser THEN 400
    ELSE IF ~ActiveStudent(student_id) THEN 404
    ELSE IF Enrolled(student_id, batch_id) THEN 409
    ELSE 200

add_status(batch_id, student_id) ==
    IF ~Exists(batch_id) THEN 404
    ELSE IF student_id = NoUser THEN 400
    ELSE IF ~ActiveStudent(student_id) THEN 404
    ELSE IF Enrolled(student_id, batch_id) THEN 409
    ELSE 200

AddStudentToBatch(batch_id, student_id) ==
    LET status == add_status(batch_id, student_id) IN
    /\ students' = IF status = 200
                   THEN [students EXCEPT ![batch_id] = Append(@, student_id)]
                   ELSE students
    /\ resp' = Response("add", status, batch_id, 0, << >>)
    /\ UNCHANGED <<batches, next_id, users, cause, others>>

\* list.remove(x): drops the first occurrence
RemoveFirst(s, x) ==
    LET i == CHOOSE k \in 1..Len(s) : s[k] = x /\ \A j \in 1..(k - 1) : s[j] # x
    IN  SubSeq(s, 1, i - 1) \o SubSeq(s, i + 1, Len(s))

remove_status(batch_id, student_id) ==
    IF ~Exists(batch_id) THEN 404
    ELSE IF ~AnyStudent(student_id) THEN 404
    ELSE IF ~Enrolled(student_id, batch_id) THEN 404
    ELSE 200

RemoveStudentFromBatch(batch_id, student_id) ==
    LET status == remove_status(batch_id, student_id) IN
    /\ students' = IF status = 200
                   THEN [students EXCEPT ![batch_id] = RemoveFirst(@, student_id)]
                   ELSE students
    /\ resp' = Response("remove", status, batch_id, 0, << >>)
    /\ UNCHANGED <<batches, next_id, users, cause, others>>

\* The user-management routes clear is_active; this file only reads the flag.
DeactivateUser(u) ==
    /\ users[u].is_active
    /\ users' = [users EXCEPT ![u].is_active = FALSE]
    /\ resp' = Response("deactivate", 200, NoBatch, 0, << >>)
    /\ UNCHANGED <<batches, next_id, students, cause, others>>

(***************************************************************************)
(* delete_batch                                                            *)
(***************************************************************************)
\* [s for s in batch.students if s.is_active]
ActiveRoster(batch_id) == SelectSeq(Roster(batch_id), LAMBDA u : users[u].is_active)

\* delete_batch without the active-students gate of line 290
delete_status_nogate(batch_id) == IF ~Exists(batch_id) THEN 404 ELSE 200

delete_status(batch_id) ==
    IF ~Exists(batch_id) THEN 404
    ELSE IF ActiveRoster(batch_id) # << >> THEN 400
    ELSE 200

\* batch.students.clear()
ClearStudents(batch_id) == [students EXCEPT ![batch_id] = << >>]

\* db.session.delete(batch)
DeleteRow(batch_id) == [ b \in DOMAIN batches \ {batch_id} |-> batches[b] ]

DeleteBatch(batch_id) ==
    LET status == delete_status(batch_id) IN
    /\ IF status = 200
       THEN /\ students' = ClearStudents(batch_id)
            /\ batches' = DeleteRow(batch_id)
            /\ resp' = Response("delete", 200, batch_id, 0, Roster(batch_id))
       ELSE /\ UNCHANGED <<students, batches>>
            /\ resp' = Response("delete", status, batch_id,
                                IF status = 400 THEN Len(ActiveRoster(batch_id)) ELSE 0,
                                << >>)
    /\ UNCHANGED <<next_id, users, cause, others>>

(***************************************************************************)
(* Listings                                                                *)
(***************************************************************************)
\* get_batches: Batch.query.filter_by(is_archived=False)
ListAll == { b \in DOMAIN batches : ~batches[b].is_archived }

\* get_active_batches: filter_by(is_active=True, is_archived=False)
ListActive == { b \in DOMAIN batches : batches[b].is_active /\ ~batches[b].is_archived }

\* get_archived_batches: filter_by(is_archived=True)
ListArchived == { b \in DOMAIN batches : batches[b].is_archived }

\* get_my_batches: the current student's batches that are active
MyBatches(u) == { b \in DOMAIN batches : Enrolled(u, b) /\ batches[b].is_active }

\* get_batches: batch_info['class'], the key left out when the description has
\* no ' - '
ListedClass(batch) ==
    IF Contains(batch.description, Sep) THEN SplitHead(batch.description) ELSE AbsentStr

(***************************************************************************)
(* archive_batch / restore_batch                                           *)
(***************************************************************************)
\* The students the archive loop changes (line 516).
CascadeTargets(batch_id) ==
    { u \in Range(Roster(batch_id)) : ~users[u].is_archived /\ Role(u) = STUDENT }

\* archive_batch without the "already archived" test of line 500
archive_status_noguard(batch_id) == IF ~Exists(batch_id) THEN 404 ELSE 200

archive_status(batch_id) ==
    IF ~Exists(batch_id) THEN 404
    ELSE IF batches[batch_id].is_archived THEN 400
    ELSE 200

ArchivedBatch(batch, reason) ==
    [batch EXCEPT !.is_archived = TRUE, !.archived_at = Stamp,
                  !.archived_by = TeacherId, !.archive_reason = reason]

ArchivedUser(user, batch_name) ==
    [user EXCEPT !.is_archived = TRUE, !.archived_at = Stamp,
                 !.archived_by = TeacherId, !.archive_reason = CascadeReason(batch_name)]

\* The ids of a set as a sequence in roster order (what the request touched).
InRosterOrder(batch_id, S) == SelectSeq(Roster(batch_id), LAMBDA u : u \in S)

\* archived_students_count: one per loop iteration that archives
CountHits(batch_id, S) == Len(InRosterOrder(batch_id, S))

ArchiveBatch(batch_id, reason) ==
    LET status == archive_status(batch_id)
        hit == CascadeTargets(batch_id)
    IN
    /\ IF status = 200
       THEN /\ batches' = [batches EXCEPT
                             ![batch_id] = ArchivedBatch(@, GetOr(reason, DefaultReason))]
            /\ users' = [ u \in Users |->
                            IF u \in hit THEN ArchivedUser(users[u], batches[batch_id].name)
                            ELSE users[u] ]
            /\ cause' = [ u \in Users |-> IF u \in hit THEN batch_id ELSE cause[u] ]
            /\ resp' = Response("archive", 200, batch_id, CountHits(batch_id, hit),
                                InRosterOrder(batch_id, hit))
       ELSE /\ UNCHANGED <<batches, users, cause>>
            /\ resp' = Response("archive", status, batch_id, 0, << >>)
    /\ UNCHANGED <<next_id, students, others>>

\* student.archive_reason and f"Archived with batch: {batch.name}" in student.archive_reason
ArchivedWithBatch(user, batch_name) ==
    Truthy(user.archive_reason) /\ Contains(user.archive_reason, CascadeReason(batch_name))

\* The students the restore loop changes (lines 566-568).
RestoreTargets(batch_id) ==
    { u \in Range(Roster(batch_id)) :
        /\ users[u].is_archived
        /\ Role(u) = STUDENT
        /\ ArchivedWithBatch(users[u], batches[batch_id].name) }

restore_status(batch_id) ==
    IF ~Exists(batch_id) THEN 404
    ELSE IF ~batches[batch_id].is_archived THEN 400
    ELSE 200

RestoredBatch(batch) ==
    [batch EXCEPT !.is_archived = FALSE, !.archived_at = NullStamp,
                  !.archived_by = NoUser, !.archive_reason = NoneStr]

RestoredUser(user) ==
    [user EXCEPT !.is_archived = FALSE, !.archived_at = NullStamp,
                 !.archived_by = NoUser, !.archive_reason = NoneStr]

RestoreBatch(batch_id, restore_students) ==
    LET status == restore_status(batch_id)
        hit == IF status = 200 /\ restore_students THEN RestoreTargets(batch_id) ELSE {}
    IN
    /\ IF status = 200
       THEN /\ batches' = [batches EXCEPT ![batch_id] = RestoredBatch(@)]
            /\ users' = [ u \in Users |-> IF u \in hit THEN RestoredUser(users[u])
                                          ELSE users[u] ]
            /\ cause' = [ u \in Users |-> IF u \in hit THEN NoBatch ELSE cause[u] ]
            /\ resp' = Response("restore", 200, batch_id, CountHits(batch_id, hit),
                                InRosterOrder(batch_id, hit))
       ELSE /\ UNCHANGED <<batches, users, cause>>
            /\ resp' = Response("restore", status, batch_id, 0, << >>)
    /\ UNCHANGED <<next_id, students, others>>

(***************************************************************************)
(* Concurrent archive requests: the check (lines 495-501) and the writes   *)
(* with their commit (lines 504-523) of one request are separate steps,    *)
(* and nothing in the handler orders two requests.                         *)
(***************************************************************************)
ArchiveCheck(r, batch_id) ==
    LET status == archive_status(batch_id) IN
    /\ inflight[r].pc = "idle"
    /\ IF status = 200
       THEN /\ inflight' = [inflight EXCEPT
                              ![r] = [ pc |-> "checked", batch_id |-> batch_id,
                                       status |-> 0, raced |-> FALSE ]]
            /\ UNCHANGED resp
       ELSE /\ inflight' = [inflight EXCEPT
                              ![r] = [ pc |-> "done", batch_id |-> batch_id,
                                       status |-> status, raced |-> FALSE ]]
            /\ resp' = Response("archive", status, batch_id, 0, << >>)
    /\ UNCHANGED <<batches, next_id, students, users, cause, exams, rankings>>

\* archive_batch looking at is_archived again when it writes
commit_status_recheck(batch_id) ==
    IF ~Exists(batch_id) THEN 500
    ELSE IF batches[batch_id].is_archived THEN 400
    ELSE 200

\* What the request answers once its check has passed: the writes and the commit
\* do not look at is_archived again.
commit_status(batch_id) == IF Exists(batch_id) THEN 200 ELSE 500

ArchiveCommit(r, reason) ==
    LET batch_id == inflight[r].batch_id
        status == commit_status(batch_id)
        hit == IF status = 200 THEN CascadeTargets(batch_id) ELSE {}
    IN
    /\ inflight[r].pc = "checked"
    /\ inflight' = [inflight EXCEPT
                      ![r] = [ pc |-> "done", batch_id |-> batch_id, status |-> status,
                               raced |-> Exists(batch_id) /\ batches[batch_id].is_archived ]]
    /\ IF status = 200
       THEN /\ batches' = [batches EXCEPT
                             ![batch_id] = ArchivedBatch(@, GetOr(reason, DefaultReason))]
            /\ users' = [ u \in Users |->
                            IF u \in hit THEN ArchivedUser(users[u], batches[batch_id].name)
                            ELSE users[u] ]
            /\ cause' = [ u \in Users |-> IF u \in hit THEN batch_id ELSE cause[u] ]
            /\ resp' = Response("archive", 200, batch_id, CountHits(batch_id, hit),
                                InRosterOrder(batch_id, hit))
       ELSE /\ UNCHANGED <<batches, users, cause>>
            /\ resp' = Response("archive", status, batch_id, 0, << >>)
    /\ UNCHANGED <<next_id, students, exams, rankings>>

(***************************************************************************)
(* get_batch / get_batch_students                                          *)
(***************************************************************************)
get_status(batch_id) == IF Exists(batch_id) THEN 200 ELSE 404

\* get_batch: the detail view lists the active students of the batch
GetBatch(batch_id) ==
    /\ resp' = IF Exists(batch_id)
               THEN Response("get", 200, batch_id, 0, ActiveRoster(batch_id))
               ELSE Response("get", 404, batch_id, 0, << >>)
    /\ UNCHANGED <<batches, next_id, students, users, cause, others>>

NoExam == 0              \* .first() found no exam
NoRank == 0              \* rank_map.get(student.id) is None; a NULL position

BatchExams(batch_id) == { e \in DOMAIN exams : exams[e].batch_id = batch_id }

\* ORDER BY year DESC, month DESC
Later(e, f) ==
    \/ exams[e].year > exams[f].year
    \/ exams[e].year = exams[f].year /\ exams[e].month > exams[f].month

\* The rows .first() may return: no other exam of the batch sorts before them.
MostRecentExams(batch_id) ==
    IF BatchExams(batch_id) = {} THEN {NoExam}
    ELSE { e \in BatchExams(batch_id) : \A f \in BatchExams(batch_id) : ~Later(f, e) }

\* rank_map.get(u) for the rankings of exam e that are final and have a position
RankOf(e, u) ==
    IF e # NoExam /\ e \in DOMAIN rankings /\ u \in DOMAIN rankings[e]
       /\ rankings[e][u].is_final /\ rankings[e][u].position # NoRank
    THEN rankings[e][u].position
    ELSE NoRank

\* the sort key without the "students without rank go to the end" component
SortKey_rank_only(rank) == <<FALSE, rank>>

\* (s['current_rank'] is None, s['current_rank'] if s['current_rank'] else 999999)
SortKey(rank) == <<rank = NoRank, IF rank # NoRank THEN rank ELSE 999999>>

\* tuple comparison k1 < k2, False before True
KeyLess(k1, k2) ==
    \/ ~k1[1] /\ k2[1]
    \/ k1[1] = k2[1] /\ k1[2] < k2[2]

\* One step of a stable sort: x goes behind every element that is not greater.
RECURSIVE InsertStable(_, _)
InsertStable(sorted, x) ==
    IF sorted = << >> THEN <<x>>
    ELSE IF KeyLess(SortKey(x.current_rank), SortKey(sorted[Len(sorted)].current_rank))
         THEN Append(InsertStable(SubSeq(sorted, 1, Len(sorted) - 1), x), sorted[Len(sorted)])
         ELSE Append(sorted, x)

\* list.sort(key=...)
RECURSIVE SortByRank(_)
SortByRank(s) ==
    IF s = << >> THEN << >>
    ELSE InsertStable(SortByRank(SubSeq(s, 1, Len(s) - 1)), s[Len(s)])

\* The rows of the body for the exam .first() returned.
StudentRows(batch_id, e) ==
    LET active == ActiveRoster(batch_id)
    IN  SortByRank([ i \in 1..Len(active) |->
                       [ id |-> active[i], current_rank |-> RankOf(e, active[i]) ] ])

GetBatchStudents(batch_id) ==
    /\ IF Exists(batch_id)
       THEN \E e \in MostRecentExams(batch_id) :
               LET rows == StudentRows(batch_id, e) IN
               resp' = [ Response("students", 200, batch_id, 0,
                                  [ i \in 1..Len(rows) |-> rows[i].id ])
                         EXCEPT !.ranks = [ i \in 1..Len(rows) |-> rows[i].current_rank ] ]
       ELSE resp' = Response("students", 404, batch_id, 0, << >>)
    /\ UNCHANGED <<batches, next_id, students, users, cause, others>>

(***************************************************************************)
(* Specifications                                                          *)
(***************************************************************************)
Class5 == ClassWord \o <<"5">>
Physics == <<"P", "h", "y", "s", "i", "c", "s">>

\* Every handler with every input of the input sets.
Next ==
    \/ \E name \in NameInputs, class \in ClassInputs, subject \in SubjectInputs :
          CreateBatch(name, class, subject)
    \/ \E b \in BatchIds, name \in NameInputs, class \in ClassInputs,
          subject \in SubjectInputs, end_date \in EndDateInputs :
          UpdateBatch(b, name, class, subject, end_date)
    \/ \E b \in BatchIds, u \in StudentIdInputs : AddStudentToBatch(b, u)
    \/ \E b \in BatchIds, u \in StudentIdInputs : RemoveStudentFromBatch(b, u)
    \/ \E u \in Students : DeactivateUser(u)
    \/ \E b \in BatchIds : DeleteBatch(b)
    \/ \E b \in BatchIds, reason \in ReasonInputs : ArchiveBatch(b, reason)
    \/ \E b \in BatchIds, rs \in BOOLEAN : RestoreBatch(b, rs)
    \/ \E b \in BatchIds : GetBatch(b)
    \/ \E b \in BatchIds : GetBatchStudents(b)

Spec == Init /\ [][Next]_vars

\* create_batch and update_batch with every input.
NextCrud ==
    \/ \E name \in NameInputs, class \in ClassInputs, subject \in SubjectInputs :
          CreateBatch(name, class, subject)
    \/ \E b \in BatchIds, name \in NameInputs, class \in ClassInputs,
          subject \in SubjectInputs, end_date \in EndDateInputs :
          UpdateBatch(b, name, class, subject, end_date)

SpecCrud == Init /\ [][NextCrud]_vars

\* create_batch with every allowed class and subject, padded and refused inputs,
\* and a name sent twice.
CreateClassInputs ==
    allowed_classes
      \cup { <<" ">> \o c \o <<" ">> : c \in allowed_classes }
      \cup { AbsentStr, EmptyStr, ClassWord \o <<"1", "1">> }
CreateSubjectInputs ==
    allowed_subjects \cup { AbsentStr, <<"A", "r", "t">>, <<"I", "C", "T", " ">> }

NextCreate ==
    \E name \in {NameA, NameASpace}, class \in CreateClassInputs,
       subject \in CreateSubjectInputs :
        CreateBatch(name, class, subject)

SpecCreate == Init /\ [][NextCreate]_vars

\* Enrollment requests with every student id, on batches that come and go.
NextEnroll ==
    \/ \E name \in {NameA, NameAB} : CreateBatch(name, Class5, Physics)
    \/ \E b \in BatchIds, u \in StudentIdInputs : AddStudentToBatch(b, u)
    \/ \E b \in BatchIds, u \in StudentIdInputs : RemoveStudentFromBatch(b, u)
    \/ \E u \in Students : DeactivateUser(u)
    \/ \E b \in BatchIds : DeleteBatch(b)

SpecEnroll == Init /\ [][NextEnroll]_vars

\* The students the requests of the archive and lifecycle specifications name:
\* one that starts out not archived and the one archived for another reason.
Named == {1, LeftId}

\* Create, rename, enroll, archive and restore over batches named A and AB.
NextArchive ==
    \/ \E name \in {NameA, NameAB} : CreateBatch(name, Class5, Physics)
    \/ \E b \in BatchIds, name \in {NameA, NameAB} :
          UpdateBatch(b, name, AbsentStr, AbsentStr, NoDate)
    \/ \E b \in BatchIds, u \in Named : AddStudentToBatch(b, u)
    \/ \E b \in BatchIds, u \in Named : RemoveStudentFromBatch(b, u)
    \/ \E u \in Named : DeactivateUser(u)
    \/ \E b \in BatchIds : ArchiveBatch(b, AbsentStr)
    \/ \E b \in BatchIds, rs \in BOOLEAN : RestoreBatch(b, rs)

SpecArchive == Init /\ [][NextArchive]_vars

\* Every handler that takes a batch id, over the whole life of a batch.
NextLife ==
    \/ \E name \in {NameA, NameAB} : CreateBatch(name, Class5, Physics)
    \/ \E b \in BatchIds : UpdateBatch(b, NameA, AbsentStr, AbsentStr, NoDate)
    \/ \E b \in BatchIds, u \in Named : AddStudentToBatch(b, u)
    \/ \E b \in BatchIds, u \in Named : RemoveStudentFromBatch(b, u)
    \/ \E u \in Named : DeactivateUser(u)
    \/ \E b \in BatchIds : DeleteBatch(b)
    \/ \E b \in BatchIds, reason \in ReasonInputs : ArchiveBatch(b, reason)
    \/ \E b \in BatchIds, rs \in BOOLEAN : RestoreBatch(b, rs)
    \/ \E b \in BatchIds : GetBatch(b)
    \/ \E b \in BatchIds : GetBatchStudents(b)

SpecLife == Init /\ [][NextLife]_vars

\* Two archive requests in flight at once.
NextRace ==
    \/ CreateBatch(NameA, Class5, Physics)
    \/ \E b \in BatchIds, u \in Named : AddStudentToBatch(b, u)
    \/ \E r \in Requests, b \in BatchIds : ArchiveCheck(r, b)
    \/ \E r \in Requests : ArchiveCommit(r, AbsentStr)
    \/ \E b \in BatchIds : RestoreBatch(b, TRUE)

SpecRace == Init /\ [][NextRace]_vars

(***************************************************************************)
(* The roster listing as a function of the rows: one batch, a roster in    *)
(* any enrollment order, up to two exams and the rankings of each.         *)
(***************************************************************************)
\* Sequences over S without repetition (the rosters enrollment can build).
RECURSIVE Rosters(_)
Rosters(S) ==
    {<< >>} \cup UNION { { <<u>> \o r : r \in Rosters(S \ {u}) } : u \in S }

\* A ranking row of a student, or NoRow when the exam has none for them.
NoRow == [ position |-> NoRank, is_final |-> FALSE ]
RankingRows ==
    { [ position |-> p, is_final |-> TRUE ] : p \in 0..MaxPos }
    \cup { [ position |-> 1, is_final |-> FALSE ] }

ExamRow(b, y, m) == [ batch_id |-> b, year |-> y, month |-> m ]

\* The second exam: earlier in the year, in the year before with a later month, in
\* the same month, in the next year, or of another batch.
SecondExams ==
    { ExamRow(1, 2025, 1), ExamRow(1, 2024, 12), ExamRow(1, 2025, 3),
      ExamRow(1, 2026, 1), ExamRow(2, 2025, 12) }

InitRoster ==
    /\ batches = (1 :> NewBatch(NameA, Class5, Physics))
    /\ next_id = 2
    /\ \E r \in Rosters(Students) : students = [ b \in BatchIds |-> IF b = 1 THEN r ELSE << >> ]
    /\ \E off \in {{}, {1}} :
          users = [ u \in Users |->
                      IF u = LeftId THEN LeftUser
                      ELSE [NewUser EXCEPT !.is_active = u \notin off] ]
    /\ cause = [ u \in Users |-> NoBatch ]
    /\ \/ exams = << >> /\ rankings = << >>
       \/ /\ exams = (1 :> ExamRow(1, 2025, 3))
          /\ \E rows \in [Students -> RankingRows \cup {NoRow}] :
                rankings = (1 :> [ u \in { v \in Students : rows[v] # NoRow } |-> rows[u] ])
       \/ /\ \E second \in SecondExams : exams = (1 :> ExamRow(1, 2025, 3)) @@ (2 :> second)
          /\ \E rows \in [Students -> RankingRows \cup {NoRow}] :
                rankings =
                    (1 :> [ u \in { v \in Students : rows[v] # NoRow } |-> rows[u] ])
                    @@ (2 :> [ u \in Students |-> [ position |-> 1, is_final |-> TRUE ] ])
    /\ inflight = [ r \in Requests |-> Idle ]
    /\ resp = Response("none", 0, NoBatch, 0, << >>)

NextRoster == \E b \in BatchIds : GetBatchStudents(b)

SpecRoster == InitRoster /\ [][NextRoster]_vars

(***************************************************************************)
(* Claims                                                                  *)
(***************************************************************************)
StoredNamesDistinct ==
    \A b1, b2 \in DOMAIN batches : b1 # b2 => batches[b1].name # batches[b2].name

\* C3: batch names are globally unique: after every create_batch / update_batch
\* request no two existing batches have the same stored name, and a create or a
\* rename (otherwise valid) whose trimmed name another batch holds is answered
\* 409 and changes no batch.
C3_BatchNamesUnique ==
    [][ /\ StoredNamesDistinct'
        /\ \A name \in NameInputs, class \in ClassInputs, subject \in SubjectInputs :
              ( /\ CreateBatch(name, class, subject)
                /\ Truthy(name) /\ Truthy(class) /\ Truthy(subject)
                /\ Strip(class) \in allowed_classes /\ Strip(subject) \in allowed_subjects
                /\ NameExists(Strip(name)) )
              => resp'.status = 409 /\ batches' = batches
        /\ \A b \in BatchIds, name \in NameInputs \ {AbsentStr} :
              ( /\ UpdateBatch(b, name, AbsentStr, AbsentStr, NoDate)
                /\ Exists(b)
                /\ NameTakenByOther(Strip(name), b) )
              => resp'.status = 409 /\ batches' = batches
      ]_vars

\* C6: an update_batch request that supplies an end_date on or before the batch's
\* start_date is rejected with 400 and leaves every batch row as it was.
C6_EndDateBeforeStartRejected ==
    [][ \A b \in BatchIds, name \in NameInputs, class \in ClassInputs,
           subject \in SubjectInputs, end_date \in EndDateInputs \ {NoDate} :
           ( /\ UpdateBatch(b, name, class, subject, end_date)
             /\ Exists(b)
             /\ end_date <= batches[b].start_date )
           => resp'.status = 400 /\ batches' = batches
      ]_vars

NoDuplicateEnrollment ==
    \A b \in BatchIds : \A i, j \in 1..Len(students[b]) :
        i # j => students[b][i] # students[b][j]

\* What C7 says of remove_student_from_batch, of the roster and of who is added.
EnrollmentRest ==
    /\ \A b \in BatchIds, u \in StudentIdInputs :
          /\ (RemoveStudentFromBatch(b, u) /\ ~Enrolled(u, b))
                => resp'.status = 404 /\ students' = students
          /\ (AddStudentToBatch(b, u) /\ students' # students)
                => ActiveStudent(u) /\ students' = [students EXCEPT ![b] = Append(@, u)]
    /\ NoDuplicateEnrollment'

\* C7 as written: add_student_to_batch for a student already enrolled in the batch
\* answers 409 and remove_student_from_batch for a student not enrolled answers 404,
\* both leaving the enrollment rows unchanged; no pair is enrolled twice and only
\* active STUDENT-role users are added.
C7_EnrolledAgainIsConflict ==
    [][ /\ \A b \in BatchIds, u \in StudentIdInputs :
              (AddStudentToBatch(b, u) /\ Enrolled(u, b))
                => resp'.status = 409 /\ students' = students
        /\ EnrollmentRest
      ]_vars

\* C7 amended: add_student_to_batch for an active student already enrolled answers
\* 409 (404 when the enrolled student has been deactivated since), remove for a
\* student not enrolled answers 404, the enrollment rows unchanged in each case; no
\* pair is enrolled twice and only active STUDENT-role users are added.
C7_EnrollmentGuards ==
    [][ /\ \A b \in BatchIds, u \in StudentIdInputs :
              (AddStudentToBatch(b, u) /\ Enrolled(u, b))
                => /\ resp'.status = IF ActiveStudent(u) THEN 409 ELSE 404
                   /\ students' = students
        /\ EnrollmentRest
      ]_vars

\* A second add of an enrolled, active student has just been refused.
C7_Witness ==
    /\ resp.op = "add" /\ resp.status = 409
    /\ \E u \in Students : Enrolled(u, resp.batch_id) /\ users[u].is_active

Listed(b) ==
    \/ b \in ListAll \cup ListActive \cup ListArchived
    \/ \E u \in Users : b \in MyBatches(u)

Deleted(b) == b < next_id /\ ~Exists(b)

\* C4: delete_batch on a batch with an active enrolled student is refused and
\* leaves batch and roster alone; with no active enrolled student it succeeds, and
\* from then on the batch is in no listing and no enrollment row names it.
C4_DeleteGatedOnActiveStudents ==
    [][ \A b \in BatchIds :
          /\ (DeleteBatch(b) /\ Exists(b) /\ ActiveRoster(b) # << >>)
                => /\ resp'.status = 400
                   /\ batches' = batches /\ students' = students
          /\ (DeleteBatch(b) /\ Exists(b) /\ ActiveRoster(b) = << >>)
                => resp'.status = 200 /\ Deleted(b)'
          /\ Deleted(b)' => ~Listed(b)' /\ students'[b] = << >>
      ]_vars

\* A batch whose roster held only deactivated students has just been deleted.
C4_Witness ==
    /\ resp.op = "delete" /\ resp.status = 200 /\ resp.list # << >>
    /\ Deleted(resp.batch_id) /\ students[resp.batch_id] = << >>

\* No request that names a deleted batch succeeds or changes a row.
DeletedIsTerminal ==
    \A b \in BatchIds :
        Deleted(b) => /\ Deleted(b)'
                      /\ resp'.batch_id = b
                            => resp'.status = 404 /\ UNCHANGED <<batches, students, users>>

\* C5 as written: deleted is terminal, and a successful delete_batch only happens
\* when the batch is not archived and has no active enrolled student.
C5_DeleteOnlyFromActiveEmpty ==
    [][ /\ DeletedIsTerminal
        /\ \A b \in BatchIds :
              (DeleteBatch(b) /\ resp'.status = 200)
                => Exists(b) /\ ~batches[b].is_archived /\ ActiveRoster(b) = << >>
      ]_vars

\* C5 amended: deleted is terminal, and a successful delete_batch only happens
\* when the batch has no active enrolled student; the batch may be archived.
C5_DeletedTerminal ==
    [][ /\ DeletedIsTerminal
        /\ \A b \in BatchIds :
              (DeleteBatch(b) /\ resp'.status = 200)
                => Exists(b) /\ ActiveRoster(b) = << >>
      ]_vars

\* A request on a deleted batch id has just been answered not-found.
C5_Witness ==
    /\ resp.op \in {"archive", "restore", "add", "update"} /\ resp.status = 404
    /\ resp.batch_id \in BatchIds /\ Deleted(resp.batch_id)

\* Successful archives and restores of a batch alternate, and a refused one
\* changes no row.
ArchiveRestoreSteps ==
    \A b \in BatchIds :
        /\ (resp'.op = "archive" /\ resp'.batch_id = b /\ resp'.status = 200)
              => Exists(b) /\ ~batches[b].is_archived /\ batches'[b].is_archived
        /\ (resp'.op = "restore" /\ resp'.batch_id = b /\ resp'.status = 200)
              => Exists(b) /\ batches[b].is_archived /\ ~batches'[b].is_archived
        /\ (resp'.op \in {"archive", "restore"} /\ resp'.batch_id = b /\ resp'.status = 400)
              => /\ Exists(b) /\ batches[b].is_archived = (resp'.op = "archive")
                 /\ UNCHANGED <<batches, students, users>>
        /\ (Exists(b) /\ b \in DOMAIN batches'
             /\ batches'[b].is_archived # batches[b].is_archived)
              => resp'.op \in {"archive", "restore"} /\ resp'.batch_id = b
                 /\ resp'.status = 200

\* C9 as written: archive_batch succeeds only on a non-archived batch and
\* restore_batch only on an archived one, a refused call changes nothing, and
\* archived_at, archived_by and archive_reason are set exactly while is_archived.
C9_ArchiveFieldsSetWhileArchived ==
    [][ /\ ArchiveRestoreSteps
        /\ \A b \in DOMAIN batches' :
              /\ batches'[b].is_archived <=> batches'[b].archived_at # NullStamp
              /\ batches'[b].is_archived <=> batches'[b].archived_by # NoUser
              /\ batches'[b].is_archived <=> batches'[b].archive_reason # NoneStr
      ]_vars

\* C9 amended: as written for the alternation, the refused calls, archived_at and
\* archived_by; archive_reason is null whenever the batch is not archived, and
\* while it is archived it is what the request gave, which may be null.
C9_ArchiveRestoreAlternate ==
    [][ /\ ArchiveRestoreSteps
        /\ \A b \in DOMAIN batches' :
              /\ batches'[b].is_archived <=> batches'[b].archived_at # NullStamp
              /\ batches'[b].is_archived <=> batches'[b].archived_by # NoUser
              /\ ~batches'[b].is_archived => batches'[b].archive_reason = NoneStr
      ]_vars

\* A second archive of a batch archived with a null reason has just been refused.
C9_Witness ==
    /\ resp.op = "archive" /\ resp.status = 400 /\ Exists(resp.batch_id)
    /\ batches[resp.batch_id].is_archived
    /\ batches[resp.batch_id].archive_reason = NoneStr

\* The students of the roster that are active and not archived: the N of C1.
ActiveFresh(b) ==
    { u \in Range(Roster(b)) : Role(u) = STUDENT /\ users[u].is_active /\ ~users[u].is_archived }

\* C1: on a roster of N active, non-archived students plus students archived for
\* other reasons, a successful archive_batch archives the N and reports
\* archived_students = N; restore_batch with restore_students = true as the next
\* request un-archives exactly those N and reports restored_students = N.
C1_ArchiveRestoreRoundTrip ==
    [][ \A b \in BatchIds :
          /\ ( /\ resp'.op = "archive"
               /\ resp'.batch_id = b
               /\ resp'.status = 200
               /\ \A u \in Range(Roster(b)) \ ActiveFresh(b) :
                     users[u].is_archived /\ cause[u] # b )
             => ( /\ \A v \in ActiveFresh(b) : users'[v].is_archived
                  /\ resp'.count = Cardinality(ActiveFresh(b)) )
          /\ ( /\ resp.op = "archive"
               /\ resp.batch_id = b
               /\ resp.status = 200
               /\ \A u \in Range(resp.list) : users[u].is_active
               /\ \A u \in Range(Roster(b)) \ Range(resp.list) :
                     users[u].is_archived /\ cause[u] # b
               /\ RestoreBatch(b, TRUE) )
             => ( /\ { v \in Users : users[v].is_archived /\ ~users'[v].is_archived }
                       = Range(resp.list)
                  /\ resp'.count = resp.count )
      ]_vars

\* C2: restore_batch(B, restore_students = true) un-archives a student only if the
\* cascade of B itself archived them; every other archived student keeps its
\* archived state and archive metadata.
C2_RestoreOnlyOwnCascade ==
    [][ \A b \in BatchIds :
          (resp'.op = "restore" /\ resp'.batch_id = b /\ resp'.status = 200)
            => \A u \in Users :
                 (users[u].is_archived /\ cause[u] # b) => users'[u] = users[u]
      ]_vars

\* The position of u in the roster s.
IndexIn(s, u) == CHOOSE k \in 1..Len(s) : s[k] = u

C10_RacingArchivesBothSucceed ==
    \A r \in Requests :
        (inflight[r].pc = "done" /\ inflight[r].raced)
          => /\ inflight[r].status = 200
             /\ \E q \in Requests \ {r} :
                   /\ inflight[q].pc = "done" /\ inflight[q].status = 200
                   /\ inflight[q].batch_id = inflight[r].batch_id

\* Both requests have answered 200 for one batch, the second over the first's commit.
C10_Witness ==
    \E r, q \in Requests :
        /\ r # q /\ inflight[r].batch_id = inflight[q].batch_id
        /\ inflight[r].pc = "done" /\ inflight[r].status = 200 /\ inflight[r].raced
        /\ inflight[q].pc = "done" /\ inflight[q].status = 200
        /\ batches[inflight[r].batch_id].is_archived

\* C11: for every allowed class c and allowed subject s, a successful create_batch
\* stores the description "c - s" and returns class = c, the class a listing
\* derives from the stored description is c, and the batch starts with
\* is_active = true, fee_amount = 0.00, max_students = 50, is_archived = false.
C11_CreateStoresClassAndDefaults ==
    [][ \A name \in {NameA, NameASpace}, c \in allowed_classes, s \in allowed_subjects :
          (resp'.status = 201 /\ CreateBatch(name, c, s))
            => LET batch == batches'[resp'.batch_id] IN
               /\ resp'.batch_id \notin DOMAIN batches
               /\ batch.description = c \o <<" ", "-", " ">> \o s
               /\ batch.subject = s
               /\ resp'.class = c
               /\ ListedClass(batch) = c
               /\ batch.is_active
               /\ batch.fee_amount = 0
               /\ batch.max_students = 50
               /\ ~batch.is_archived
      ]_vars

\* A batch created as "HSC 1st Year", "Higher Mathematics" is stored and answered.
C11_Witness ==
    /\ resp.op = "create" /\ resp.status = 201
    /\ resp.class = HSCWord \o <<"1", "s", "t">> \o YearWord
    /\ batches[resp.batch_id].subject
          = <<"H", "i", "g", "h", "e", "r", " ", "M", "a", "t", "h", "e", "m", "a", "t", "i", "c", "s">>
    /\ ListedClass(batches[resp.batch_id]) = resp.class

\* C12: in every reachable state, every STUDENT-role user enrolled in an archived
\* batch is archived.
C12_EnrolledInArchivedIsArchived ==
    \A b \in DOMAIN batches :
        batches[b].is_archived
          => \A u \in Range(Roster(b)) : Role(u) = STUDENT => users[u].is_archived

\* The stored subject is an allowed subject and the description is
\* "<class> - <subject>" for an allowed class and the stored subject.
DescriptionMatchesSubject ==
    \A b \in DOMAIN batches :
        /\ batches[b].subject \in allowed_subjects
        /\ \E c \in allowed_classes :
              batches[b].description = c \o <<" ", "-", " ">> \o batches[b].subject

\* C13: after create_batch and any successful update_batch requests, each batch's
\* subject is an allowed subject and its description is "<class> - <subject>" with
\* an allowed class and the stored subject; update_batch rewrites the description
\* only when both the resolved class and the resolved subject are present.
C13_DescriptionFollowsSubject ==
    [][ /\ DescriptionMatchesSubject'
        /\ \A b \in DOMAIN batches, name \in NameInputs, class \in ClassInputs,
              subject \in SubjectInputs, end_date \in EndDateInputs :
              ( /\ b \in DOMAIN batches'
                /\ batches'[b].description # batches[b].description
                /\ UpdateBatch(b, name, class, subject, end_date) )
                => /\ Truthy(GetOr(class, SplitHead(batches[b].description)))
                   /\ Truthy(GetOr(subject, batches[b].subject))
      ]_vars
====
